---- MODULE Spec2Model ----
(***************************************************************************)
(* A model of lead-hunter-pro: the places search with its deep-scan query  *)
(* fan-out, pagination and de-duplicating merge (services/maps_scraper.py, *)
(* the /api/search handler of main.py), the owner enrichment heuristic     *)
(* (services/enrichment.py) and the landing page generator                 *)
(* (services/site_generator.py, the /api/generate-site handler).           *)
(*                                                                         *)
(* Python strings that the code inspects are sequences of tokens: a        *)
(* location is a sequence of characters, a query text is the sequence of   *)
(* the pieces its f-string joins, a generated page is a sequence of        *)
(* fragments.  None is the value NoneVal.                                  *)
(***************************************************************************)
EXTENDS Naturals, Sequences, FiniteSets, TLC

VARIABLES
    \* ---- /api/search: search_leads and search_google_maps
    req,            \* the SearchRequest: niche, location, api_key, deep_scan
    pc,             \* position of the search handler
    queries,        \* search_google_maps: the list of query texts
    qi,             \* index in queries of the query the for loop is at
    all_results,    \* the insertion-ordered dict place_id -> record, as the sequence of its values
    results,        \* _execute_query: the local list of records
    places_result,  \* _execute_query: the page response being processed
    query_results,  \* search_google_maps: what _execute_query returned
    response,       \* what the endpoint answered (NoResponse until it answers)
    \* ---- history of the search (not read by the program)
    issued,         \* the query texts _execute_query was called with, in order
    finished,       \* number of _execute_query calls that returned
    merged,         \* number of returned lists merged into all_results
    first_seen,     \* place_id -> the first record any query returned for it
    last_seen,      \* place_id -> the last record any query returned for it
    failed,         \* a vendor call of some query has raised
    \* ---- /api/generate-site: generate_site and generate_landing_page
    s_req,          \* the request body: business_name, niche, location, ai_api_key, provider
    s_pc,           \* position of the generate-site handler
    provider_calls, \* the models asked so far, in order
    glp,            \* how generate_landing_page ended: "none", "returned", "raised"
    html_content,   \* what generate_landing_page returned
    generated,      \* static/generated: the file written
    s_response,     \* what the endpoint answered (NoResponse until it answers)
    \* ---- find_owner_info
    e_req,          \* business_name and location
    e_pc,           \* position of find_owner_info
    e_calls,        \* the search-engine queries sent so far, in order, and how each was answered
    found_name,     \* the local found_name
    found_contact,  \* the local found_contact
    info,           \* the dict returned (NoInfo until it returns)
    snippets_seen   \* history: the snippet texts read so far

searchVars == <<req, pc, queries, qi, all_results, results, places_result,
                query_results, response, issued, finished, merged, first_seen, last_seen, failed>>

siteVars == <<s_req, s_pc, provider_calls, glp, html_content, generated, s_response>>

enrichVars == <<e_req, e_pc, e_calls, found_name, found_contact, info, snippets_seen>>

vars == <<searchVars, siteVars, enrichVars>>

NoneVal == "<None>"

(***************************************************************************)
(* Bounds of the model.                                                    *)
(***************************************************************************)
\* The aggregate and the local list of the running query hold at most
\* MaxRecords records together (pages that deliver no record are not limited).
MaxRecords == 3
\* Longest page of places the vendor returns.
MaxPageLen == 2

(***************************************************************************)
(* Inputs.                                                                 *)
(***************************************************************************)
Niches == {"plumbers"}
\* "Reno" is no key of the region lookup; "Utah" and " UTAH " normalise to one.
Locations == { <<"R","e","n","o">>, <<"U","t","a","h">>, <<" ","U","T","A","H"," ">> }
ApiKeys == {"", "AIza-key"}
PlaceIds == {"p1", "p2"}

\* bool(x) of Python for the values a field can hold: None and "" are false.
Truthy(x) == x # NoneVal /\ x # ""

(***************************************************************************)
(* str.lower() and str.strip() on a sequence of characters.                *)
(***************************************************************************)
LowerChar(c) ==
    CASE c = "A" -> "a" [] c = "C" -> "c" [] c = "H" -> "h" [] c = "J" -> "j"
      [] c = "R" -> "r" [] c = "T" -> "t" [] c = "U" -> "u" [] OTHER -> c

Lower(s) == [i \in 1..Len(s) |-> LowerChar(s[i])]

IsSpace(c) == c = " "

RECURSIVE LStrip(_)
LStrip(s) == IF s # <<>> /\ IsSpace(Head(s)) THEN LStrip(Tail(s)) ELSE s

RECURSIVE RStrip(_)
RStrip(s) ==
    IF s # <<>> /\ IsSpace(s[Len(s)]) THEN RStrip(SubSeq(s, 1, Len(s) - 1)) ELSE s

Strip(s) == RStrip(LStrip(s))

(***************************************************************************)
(* services.cities.US_STATES_CITIES: the static lookup region -> cities,   *)
(* keyed by the lower-case region name.                                    *)
(***************************************************************************)
US_STATES_CITIES ==
    [k \in { <<"u","t","a","h">> } |-> <<"Provo", "Ogden">>]

\* The grid without its two last modifiers.
directions8 ==
    << "North", "North East", "East", "South East",
       "South", "South West", "West", "North West" >>

directions ==
    << "North", "North East", "East", "South East",
       "South", "South West", "West", "North West",
       "Central", "Downtown" >>

\* f"{niche} in {location}"
BaseQuery(niche, location) == <<niche, " in ">> \o location
\* f"{niche} in {city}, {location}"
CityQuery(niche, city, location) == <<niche, " in ", city, ", ">> \o location
\* f"{niche} in {direction} {location}"
DirectionQuery(niche, direction, location) == <<niche, " in ", direction, " ">> \o location

\* The fan-out done whatever deep_scan says.
BuildQueriesAlways(niche, location, deep_scan) ==
    LET loc_lower == Strip(Lower(location))
    IN  <<BaseQuery(niche, location)>> \o
        IF loc_lower \in DOMAIN US_STATES_CITIES
        THEN LET target_cities == US_STATES_CITIES[loc_lower]
             IN  [i \in 1..Len(target_cities) |->
                     CityQuery(niche, target_cities[i], location)]
        ELSE [i \in 1..Len(directions) |->
                 DirectionQuery(niche, directions[i], location)]

\* The query list search_google_maps builds before its loop.
BuildQueries(niche, location, deep_scan) ==
    LET loc_lower == Strip(Lower(location))
    IN  <<BaseQuery(niche, location)>> \o
        IF ~deep_scan THEN <<>>
        ELSE IF loc_lower \in DOMAIN US_STATES_CITIES
             THEN LET target_cities == US_STATES_CITIES[loc_lower]
                  IN  [i \in 1..Len(target_cities) |->
                          CityQuery(niche, target_cities[i], location)]
             ELSE [i \in 1..Len(directions) |->
                      DirectionQuery(niche, directions[i], location)]

(***************************************************************************)
(* The vendor: what gmaps.places and gmaps.place can answer.               *)
(***************************************************************************)
SeqsUpTo(S, n) == UNION {[1..k -> S] : k \in 0..n}

\* A page response: the 'results' key may be missing, and so may 'next_page_token'.
PlacesResponses ==
    { [has_results |-> TRUE, results |-> rs, next_page_token |-> t] :
          rs \in SeqsUpTo(PlaceIds, MaxPageLen), t \in BOOLEAN }
    \cup { [has_results |-> FALSE, results |-> <<>>, next_page_token |-> t] : t \in BOOLEAN }

NoPage == [has_results |-> FALSE, results |-> <<>>, next_page_token |-> FALSE]

\* The vendor's data: the website it may list for a place.  That of p1 differs
\* from one fetch to the next, p2 has the empty string.
WebsitesOf(place_id) ==
    IF place_id = "p1" THEN {NoneVal, "https://acme.example"} ELSE {""}

\* details.get('result', {}) of a place: the four requested fields.
DetailResults(place_id) ==
    { [name |-> "Acme", formatted_address |-> "1 Main St",
       formatted_phone_number |-> "555-0100", website |-> w] : w \in WebsitesOf(place_id) }

\* gmaps.place(place_id=...) raises, or answers.
DetailOutcomes(place_id) ==
    {[ok |-> FALSE]} \cup {[ok |-> TRUE, result |-> d] : d \in DetailResults(place_id)}

\* website is not None
HasWebsiteNotNone(website) == website # NoneVal

\* "has_website": bool(website)
HasWebsite(website) == Truthy(website)

\* The dict _execute_query appends for one place.
MakeRecord(res, place_id) ==
    [ name        |-> res.name,
      address     |-> res.formatted_address,
      phone       |-> res.formatted_phone_number,
      website     |-> res.website,
      has_website |-> HasWebsite(res.website),
      place_id    |-> place_id ]

\* The for loop over one page: a place whose detail fetch raises is skipped.
RECURSIVE ProcessPlaces(_, _, _)
ProcessPlaces(places, outcomes, acc) ==
    IF places = <<>> THEN acc
    ELSE LET o == Head(outcomes)
         IN  ProcessPlaces(Tail(places), Tail(outcomes),
                 IF o.ok THEN Append(acc, MakeRecord(o.result, Head(places))) ELSE acc)

\* The cap the caller passes as max_per_query (60 with pages of 20 places),
\* scaled to the pages of the model.
MaxPerQuery == 2

\* The loop condition without the cap.
MorePagesTokenOnly(page, res) == page.next_page_token

\* The loop condition of the pagination.
MorePages(page, res) == page.next_page_token /\ Len(res) < MaxPerQuery

Ids(rs) == {rs[i].place_id : i \in 1..Len(rs)}

\* The merge that lets a later record replace the one kept.
RECURSIVE MergeIntoLastWins(_, _)
MergeIntoLastWins(all, qrs) ==
    IF qrs = <<>> THEN all
    ELSE LET res == Head(qrs)
             pid == res.place_id
         IN  MergeIntoLastWins(
                 IF pid \notin Ids(all) THEN Append(all, res)
                 ELSE [i \in 1..Len(all) |-> IF all[i].place_id = pid THEN res ELSE all[i]],
                 Tail(qrs))

\* for res in query_results: if pid not in all_results: all_results[pid] = res
RECURSIVE MergeInto(_, _)
MergeInto(all, qrs) ==
    IF qrs = <<>> THEN all
    ELSE LET res == Head(qrs)
             pid == res.place_id
         IN  MergeInto(IF pid \notin Ids(all) THEN Append(all, res) ELSE all, Tail(qrs))

\* search_leads: the formatted record of one raw result.
FormatResult(r) ==
    [ name |-> r.name, address |-> r.address, phone |-> r.phone,
      website |-> r.website, has_website |-> r.has_website,
      owner_name |-> NoneVal, owner_contact |-> NoneVal ]

\* The formatted records, none left out.
NoWebsiteKeepAll(bs) == bs

\* [b for b in results if not b['has_website']]
RECURSIVE NoWebsite(_)
NoWebsite(bs) ==
    IF bs = <<>> THEN <<>>
    ELSE (IF ~Head(bs).has_website THEN <<Head(bs)>> ELSE <<>>) \o NoWebsite(Tail(bs))

NoResponse == [status |-> "none"]

(***************************************************************************)
(* /api/search                                                             *)
(***************************************************************************)
Requests ==
    [niche : Niches, location : Locations, api_key : ApiKeys, deep_scan : BOOLEAN]

IdleRequest ==
    [niche |-> NoneVal, location |-> <<>>, api_key |-> "", deep_scan |-> FALSE]

\* The search handler, at the position pos, before it has done anything.
SearchAt(pos) ==
    /\ pc = pos
    /\ queries = <<>>
    /\ qi = 0
    /\ all_results = <<>>
    /\ results = <<>>
    /\ places_result = NoPage
    /\ query_results = <<>>
    /\ response = NoResponse
    /\ issued = <<>>
    /\ finished = 0
    /\ merged = 0
    /\ first_seen = <<>>
    /\ last_seen = <<>>
    /\ failed = FALSE

\* search_leads: a request without a key is answered at once.
SearchNoKey ==
    /\ pc = "start"
    /\ req.api_key = ""
    /\ response' = [status |-> "error", message |-> "API Key is required"]
    /\ pc' = "done"
    /\ UNCHANGED <<req, queries, qi, all_results, results, places_result, query_results,
                   issued, finished, merged, first_seen, last_seen, failed>>
    /\ UNCHANGED <<siteVars, enrichVars>>

\* What can raise in search_google_maps before its loop: the construction of
\* the client, and under deep_scan the import of the region lookup.
SetupErrors(r) == {"googlemaps.Client"} \cup (IF r.deep_scan THEN {"services.cities"} ELSE {})

\* The exception leaves search_google_maps and search_leads answers with it.
SearchSetupFails ==
    /\ pc = "start"
    /\ req.api_key # ""
    /\ \E e \in SetupErrors(req) :
           response' = [status |-> "error", message |-> e]
    /\ pc' = "done"
    /\ UNCHANGED <<req, queries, qi, all_results, results, places_result, query_results,
                   issued, finished, merged, first_seen, last_seen, failed>>
    /\ UNCHANGED <<siteVars, enrichVars>>

\* search_google_maps up to its loop: the query list and the empty dict.
SearchBuildQueries ==
    /\ pc = "start"
    /\ req.api_key # ""
    /\ queries' = BuildQueries(req.niche, req.location, req.deep_scan)
    /\ all_results' = <<>>
    /\ qi' = 1
    /\ pc' = "query"
    /\ UNCHANGED <<req, results, places_result, query_results, response,
                   issued, finished, merged, first_seen, last_seen, failed>>
    /\ UNCHANGED <<siteVars, enrichVars>>

\* The first record of rs for each place_id no query returned before.
FirstSeen(seen, rs) ==
    LET new == Ids(rs) \ DOMAIN seen
        first(p) == rs[CHOOSE i \in 1..Len(rs) :
                          /\ rs[i].place_id = p
                          /\ \A j \in 1..(i - 1) : rs[j].place_id # p]
    IN  [p \in DOMAIN seen \cup new |-> IF p \in DOMAIN seen THEN seen[p] ELSE first(p)]

\* The last record of rs for each of its place_ids.
LastSeen(seen, rs) ==
    LET last(p) == rs[CHOOSE i \in 1..Len(rs) :
                         /\ rs[i].place_id = p
                         /\ \A j \in (i + 1)..Len(rs) : rs[j].place_id # p]
    IN  [p \in DOMAIN seen \cup Ids(rs) |-> IF p \in Ids(rs) THEN last(p) ELSE seen[p]]

\* return results: the locals of _execute_query are gone, the caller holds the list.
Return(rs) ==
    /\ query_results' = rs
    /\ results' = <<>>
    /\ places_result' = NoPage
    /\ finished' = finished + 1
    /\ first_seen' = FirstSeen(first_seen, rs)
    /\ last_seen' = LastSeen(last_seen, rs)
    /\ pc' = "merge"

\* The next query dispatched while the running one has not returned.
CanExecutePooled == pc \in {"query", "page", "paginate"} /\ qi <= Len(queries)

\* The next query started before the returned list is merged.
CanExecuteBeforeMerge == pc \in {"query", "merge"} /\ qi <= Len(queries)

\* The loop may call _execute_query for the query at qi.
CanExecute == pc = "query" /\ qi <= Len(queries)

\* The initial search without the handler around it: its exception leaves
\* _execute_query and search_leads answers with it.
InitialSearchUncaught ==
    /\ CanExecute
    /\ issued' = Append(issued, queries[qi])
    /\ \/ /\ failed' = TRUE
          /\ response' = [status |-> "error", message |-> "gmaps.places"]
          /\ pc' = "done"
          /\ UNCHANGED <<results, places_result, query_results, finished,
                         first_seen, last_seen>>
       \/ /\ \E r \in PlacesResponses : places_result' = r
          /\ results' = <<>>
          /\ pc' = "page"
          /\ response' = response
          /\ UNCHANGED <<query_results, finished, first_seen, last_seen, failed>>
    /\ UNCHANGED <<req, queries, qi, all_results, merged>>
    /\ UNCHANGED <<siteVars, enrichVars>>

\* _execute_query, the initial search: gmaps.places(query=query_text).  When it
\* raises, the outer handler of _execute_query returns the empty list.
InitialSearch ==
    /\ CanExecute
    /\ issued' = Append(issued, queries[qi])
    /\ \/ /\ failed' = TRUE
          /\ Return(<<>>)
       \/ /\ \E r \in PlacesResponses : places_result' = r
          /\ results' = <<>>
          /\ pc' = "page"
          /\ UNCHANGED <<query_results, finished, first_seen, last_seen, failed>>
    /\ UNCHANGED <<req, queries, qi, all_results, response, merged>>
    /\ UNCHANGED <<siteVars, enrichVars>>

\* The detail outcomes the model lets the vendor give for the places of a page:
\* the aggregate and the local list hold at most MaxRecords records together.
OutcomesFor(places) ==
    { os \in [1..Len(places) -> UNION {DetailOutcomes(p) : p \in PlaceIds}] :
          /\ \A i \in DOMAIN os : os[i] \in DetailOutcomes(places[i])
          /\ Len(all_results) + Len(results)
                 + Cardinality({i \in DOMAIN os : os[i].ok}) <= MaxRecords }

DetailFailed(outcomes) == \E i \in DOMAIN outcomes : ~outcomes[i].ok

\* The page once its for loop has run: of places_result only the token is read
\* from then on.
Consumed(page) ==
    [has_results |-> FALSE, results |-> <<>>, next_page_token |-> page.next_page_token]

\* One turn of the while loop, first half: the detail fetches of the places of
\* the page.
ProcessPage ==
    /\ pc = "page"
    /\ \E outcomes \in OutcomesFor(places_result.results) :
          /\ results' = ProcessPlaces(places_result.results, outcomes, results)
          /\ failed' = (failed \/ DetailFailed(outcomes))
    /\ places_result' = Consumed(places_result)
    /\ pc' = "paginate"
    /\ UNCHANGED <<req, queries, qi, all_results, query_results, response,
                   issued, finished, merged, first_seen, last_seen>>
    /\ UNCHANGED <<siteVars, enrichVars>>

\* Second half, a next page is due: gmaps.places(page_token=token) after the
\* wait answers it, or raises and the loop breaks.
NextPage ==
    /\ pc = "paginate"
    /\ MorePages(places_result, results)
    /\ \/ /\ failed' = TRUE
          /\ Return(results)
       \/ /\ \E r \in PlacesResponses : places_result' = r
          /\ pc' = "page"
          /\ UNCHANGED <<results, query_results, finished, first_seen, last_seen, failed>>
    /\ UNCHANGED <<req, queries, qi, all_results, response, issued, merged>>
    /\ UNCHANGED <<siteVars, enrichVars>>

\* Second half, no page is due (no token, or the cap is reached): break.
StopPaging ==
    /\ pc = "paginate"
    /\ ~MorePages(places_result, results)
    /\ Return(results)
    /\ UNCHANGED <<req, queries, qi, all_results, response, issued, merged, failed>>
    /\ UNCHANGED <<siteVars, enrichVars>>

\* The caller's loop over query_results, then the next query.
MergeResults ==
    /\ pc = "merge"
    /\ all_results' = MergeInto(all_results, query_results)
    /\ query_results' = <<>>
    /\ merged' = merged + 1
    /\ qi' = qi + 1
    /\ pc' = "query"
    /\ UNCHANGED <<req, queries, results, places_result, response,
                   issued, finished, first_seen, last_seen, failed>>
    /\ UNCHANGED <<siteVars, enrichVars>>

\* search_google_maps returns list(all_results.values()); search_leads formats
\* the records, keeps those without a website and answers.
SearchRespond ==
    /\ pc = "query"
    /\ qi > Len(queries)
    /\ LET raw_results == all_results
           formatted == [i \in 1..Len(raw_results) |-> FormatResult(raw_results[i])]
           filtered == NoWebsite(formatted)
       IN  response' = [ status |-> "success", results |-> filtered,
                         total_found |-> Len(filtered), total_scanned |-> Len(formatted) ]
    /\ pc' = "done"
    /\ UNCHANGED <<req, queries, qi, all_results, results, places_result, query_results,
                   issued, finished, merged, first_seen, last_seen, failed>>
    /\ UNCHANGED <<siteVars, enrichVars>>

NextSearch ==
    \/ SearchNoKey
    \/ SearchSetupFails
    \/ SearchBuildQueries
    \/ InitialSearch
    \/ ProcessPage
    \/ NextPage
    \/ StopPaging
    \/ MergeResults
    \/ SearchRespond


(***************************************************************************)
(* /api/generate-site                                                      *)
(***************************************************************************)
\* Longest provider answer, in fragments.
MaxContentLen == 4

\* None where the code expects a string of characters.
NoneStr == <<NoneVal>>

\* "J&J Co", the empty name, and a body without business_name.
BusinessNames == { <<"J","&","J"," ","C","o">>, <<>>, NoneStr }
SiteNiches == {"plumbers", "dentist", NoneVal}
Providers == {"openai", "gpt", "gemini", "claude"}
AiKeys == {"", "sk-key"}

SiteRequests ==
    [business_name : BusinessNames, niche : SiteNiches, location : {"Reno"},
     ai_api_key : AiKeys, provider : Providers]

IdleSiteRequest ==
    [business_name |-> <<>>, niche |-> NoneVal, location |-> NoneVal,
     ai_api_key |-> "", provider |-> "openai"]

\* The fragments of a provider answer: a backtick (written bq), the word html,
\* other text.
Fragments == {"bq", "html", "<p>"}
Contents == SeqsUpTo(Fragments, MaxContentLen)

IsPrefix(pat, str) == Len(pat) <= Len(str) /\ SubSeq(str, 1, Len(pat)) = pat

\* str.replace(pat, ""): the occurrences found from the left, never overlapping.
RECURSIVE Remove(_, _)
Remove(str, pat) ==
    IF str = <<>> THEN <<>>
    ELSE IF IsPrefix(pat, str) THEN Remove(SubSeq(str, Len(pat) + 1, Len(str)), pat)
    ELSE <<Head(str)>> \o Remove(Tail(str), pat)

\* _clean_html: the fence of three backticks and html is removed, then the
\* fence of three backticks.
CleanHtml(content) ==
    Remove(Remove(content, <<"bq", "bq", "bq", "html">>), <<"bq", "bq", "bq">>)

\* The two models, the other way round.
modelsReversed == <<"gemini-pro", "gemini-1.5-flash">>

\* The Gemini models, in the order tried.
models == <<"gemini-1.5-flash", "gemini-pro">>

palettes == {"blue", "indigo", "emerald", "violet", "cyan", "rose"}
fonts == {"Plus Jakarta Sans", "Outfit", "Inter", "Poppins"}
layouts == {"split", "centered", "minimal"}

\* niche.title() for the niches of the model.
Title(niche) ==
    CASE niche = "plumbers" -> "Plumbers" [] niche = "dentist" -> "Dentist" [] OTHER -> niche

\* niche.title().replace("Plumbers", "Plumbing").replace("Roofers", "Roofing")
NicheDisplay(niche) ==
    LET t == Title(niche)
    IN  CASE t = "Plumbers" -> "Plumbing" [] t = "Roofers" -> "Roofing" [] OTHER -> t

\* What makes _generate_fallback_template raise: niche.title() of None, and
\* business_name[0] of None or of the empty string.
FallbackRaises(business_name, niche) ==
    niche = NoneVal \/ business_name = NoneStr \/ business_name = <<>>

\* The document the fallback assembles, as the fragments that vary.
FallbackTemplate(business_name, niche, location, palette, font, layout) ==
    <<"<!DOCTYPE html>", "<title>">> \o business_name
        \o <<" | ", NicheDisplay(niche), " in ", location, "</title>",
             font, palette, business_name[1], layout>>

Letters == {"C", "J", "o", "c", "j"}
IsAlnum(c) == c \in Letters

\* c.isalnum() or c in (' ', '-', '_')
IsSafeChar(c) == IsAlnum(c) \/ c \in {" ", "-", "_"}

RECURSIVE SafeChars(_)
SafeChars(str) ==
    IF str = <<>> THEN <<>>
    ELSE (IF IsSafeChar(Head(str)) THEN <<Head(str)>> ELSE <<>>) \o SafeChars(Tail(str))

\* The safe characters of the name joined, .strip().replace(' ', '_').lower()
SafeName(business_name) ==
    LET kept == Strip(SafeChars(business_name))
    IN  Lower([i \in 1..Len(kept) |-> IF kept[i] = " " THEN "_" ELSE kept[i]])

NoFile == [name |-> <<>>, content |-> <<>>, written |-> FALSE]

\* The generate-site handler, at the position pos, before it has done anything.
SiteAt(pos) ==
    /\ s_pc = pos
    /\ provider_calls = <<>>
    /\ glp = "none"
    /\ html_content = <<>>
    /\ generated = NoFile
    /\ s_response = NoResponse

\* generate_site: a body without a key is answered with 400.
SiteNoKey ==
    /\ s_pc = "start"
    /\ ~Truthy(s_req.ai_api_key)
    /\ s_response' = [status |-> "error", code |-> 400, message |-> "AI API Key is required"]
    /\ s_pc' = "done"
    /\ UNCHANGED <<s_req, provider_calls, glp, html_content, generated>>
    /\ UNCHANGED <<searchVars, enrichVars>>

\* generate_site calls generate_landing_page.
SiteGenerate ==
    /\ s_pc = "start"
    /\ Truthy(s_req.ai_api_key)
    /\ s_pc' = "provider"
    /\ UNCHANGED <<s_req, provider_calls, glp, html_content, generated, s_response>>
    /\ UNCHANGED <<searchVars, enrichVars>>

\* return _clean_html(content)
Returned(content) ==
    /\ html_content' = CleanHtml(content)
    /\ glp' = "returned"
    /\ s_pc' = "save"
    /\ UNCHANGED s_response

\* The provider's exception leaves generate_landing_page and generate_site
\* answers 500.
ProviderErrorUncaught ==
    /\ glp' = "raised"
    /\ s_response' = [status |-> "error", code |-> 500, message |-> "provider"]
    /\ s_pc' = "done"
    /\ UNCHANGED html_content

\* The except branch of generate_landing_page is entered.
ToFallback ==
    /\ s_pc' = "fallback"
    /\ UNCHANGED <<glp, html_content, s_response>>

\* provider "openai" or "gpt": one chat completion.  The request, the status
\* check, the shape of the answer or _clean_html(None) may raise.
OpenAIRequest ==
    /\ s_pc = "provider"
    /\ s_req.provider \in {"openai", "gpt"}
    /\ provider_calls' = Append(provider_calls, "gpt-4o")
    /\ \/ \E content \in Contents : Returned(content)
       \/ ToFallback
    /\ UNCHANGED <<s_req, generated>>
    /\ UNCHANGED <<searchVars, enrichVars>>

\* provider "gemini": the next model of the list is asked.  A failure is kept
\* as last_error and the loop goes on; after the last model it is raised.
GeminiRequest ==
    /\ s_pc = "provider"
    /\ s_req.provider = "gemini"
    /\ Len(provider_calls) < Len(models)
    /\ provider_calls' = Append(provider_calls, models[Len(provider_calls) + 1])
    /\ \/ \E content \in Contents : Returned(content)
       \/ IF Len(provider_calls') = Len(models)
          THEN ToFallback
          ELSE UNCHANGED <<s_pc, glp, html_content, s_response>>
    /\ UNCHANGED <<s_req, generated>>
    /\ UNCHANGED <<searchVars, enrichVars>>

\* Any other provider: raise ValueError("Unsupported provider").
UnsupportedProvider ==
    /\ s_pc = "provider"
    /\ s_req.provider \notin {"openai", "gpt", "gemini"}
    /\ ToFallback
    /\ UNCHANGED <<s_req, provider_calls, generated>>
    /\ UNCHANGED <<searchVars, enrichVars>>

\* return _generate_fallback_template(...), with its random palette, font and layout.
FallbackReturns ==
    /\ s_pc = "fallback"
    /\ ~FallbackRaises(s_req.business_name, s_req.niche)
    /\ \E palette \in palettes, font \in fonts, layout \in layouts :
          html_content' = FallbackTemplate(s_req.business_name, s_req.niche,
                                           s_req.location, palette, font, layout)
    /\ glp' = "returned"
    /\ s_pc' = "save"
    /\ UNCHANGED <<s_req, provider_calls, generated, s_response>>
    /\ UNCHANGED <<searchVars, enrichVars>>

\* The fallback raises inside the except branch: the exception leaves
\* generate_landing_page and generate_site answers 500.
FallbackFails ==
    /\ s_pc = "fallback"
    /\ FallbackRaises(s_req.business_name, s_req.niche)
    /\ glp' = "raised"
    /\ s_response' = [status |-> "error", code |-> 500, message |-> "fallback template"]
    /\ s_pc' = "done"
    /\ UNCHANGED <<s_req, provider_calls, html_content, generated>>
    /\ UNCHANGED <<searchVars, enrichVars>>

\* generate_site with the page: the file name, the directory and the write.
SiteSave ==
    /\ s_pc = "save"
    /\ s_req.business_name # NoneStr
    /\ LET filename == SafeName(s_req.business_name) \o <<".html">>
       IN  /\ generated' = [name |-> filename, content |-> html_content, written |-> TRUE]
           /\ s_response' = [status |-> "success", code |-> 200,
                             preview_url |-> <<"/static/generated/">> \o filename]
    /\ s_pc' = "done"
    /\ UNCHANGED <<s_req, provider_calls, glp, html_content>>
    /\ UNCHANGED <<searchVars, enrichVars>>

\* What can raise in generate_site once the page is there.
SaveErrors(r) ==
    IF r.business_name = NoneStr THEN {"safe_name"} ELSE {"os.makedirs", "open", "write"}

\* The exception is caught by generate_site, which answers 500.
SiteSaveFails ==
    /\ s_pc = "save"
    /\ \E e \in SaveErrors(s_req) :
          s_response' = [status |-> "error", code |-> 500, message |-> e]
    /\ s_pc' = "done"
    /\ UNCHANGED <<s_req, provider_calls, glp, html_content, generated>>
    /\ UNCHANGED <<searchVars, enrichVars>>

NextSite ==
    \/ SiteNoKey
    \/ SiteGenerate
    \/ OpenAIRequest
    \/ GeminiRequest
    \/ UnsupportedProvider
    \/ FallbackReturns
    \/ FallbackFails
    \/ SiteSave
    \/ SiteSaveFails


(***************************************************************************)
(* find_owner_info                                                         *)
(***************************************************************************)
\* Most snippets of one result page.
MaxSnippets == 2

\* The role keywords of the first pattern, as written (the search is case-sensitive).
RoleKeywords == {"Owner", "CEO", "President", "Founder"}

\* The pattern taken without regard to case.
IsRoleAnyCase(w) == w \in RoleKeywords \cup {"owner", "ceo", "president", "founder"}

\* (?:Owner|CEO|President|Founder)
IsRole(w) == w \in RoleKeywords

\* [:\s]
IsSeparator(w) == w \in {":", " "}

\* [A-Z][a-z]+ : the words of the model that are one capital then small letters.
IsCapitalised(w) == w \in {"John", "Smith", "Mary", "Major", "Jane", "Doe"}

\* [\w\.-]+@[\w\.-]+\.\w+ : the words of the model that have this shape.
IsEmail(w) == w \in {"info@acme.com", "jane@acme.com"}

\* The first pattern matches at word i of the text, its separators ending at j.
NameAt(text, i, j) ==
    /\ IsRole(text[i])
    /\ j > i
    /\ \A k \in (i + 1)..j : IsSeparator(text[k])
    /\ j + 3 <= Len(text)
    /\ IsCapitalised(text[j + 1])
    /\ text[j + 2] = " "
    /\ IsCapitalised(text[j + 3])

\* re.search of the first pattern: group(1) of the leftmost match, or None.
SearchName(text) ==
    LET starts == {i \in 1..Len(text) : \E j \in 1..Len(text) : NameAt(text, i, j)}
    IN  IF starts = {} THEN NoneStr
        ELSE LET i == CHOOSE a \in starts : \A b \in starts : a <= b
                 j == CHOOSE b \in 1..Len(text) : NameAt(text, i, b)
             IN  <<text[j + 1], " ", text[j + 3]>>

\* re.search of the second pattern: group(0) of the leftmost match, or None.
SearchEmail(text) ==
    LET hits == {i \in 1..Len(text) : IsEmail(text[i])}
    IN  IF hits = {} THEN NoneVal
        ELSE text[CHOOSE a \in hits : \A b \in hits : a <= b]

\* Snippets with a match.
MatchingSnippets ==
    { <<"Owner", ":", " ", "John", " ", "Smith">>,
      <<"Founder", " ", "Mary", " ", "Major", " ", "info@acme.com">>,
      <<"mail", " ", "jane@acme.com">> }

\* Snippets with neither a role followed by a name nor an email: the role in
\* small letters, a single name, no separator, a name in capitals, a stray @.
PlainSnippets ==
    { <<"best", " ", "plumbers">>,
      <<"owner", ":", " ", "John", " ", "Smith">>,
      <<"Owner", ":", " ", "John">>,
      <<"CEO", "Jane", " ", "Doe">>,
      <<"President", " ", "JOHN", " ", "SMITH", " ", "@", "acme">> }

Snippets == MatchingSnippets \cup PlainSnippets

\* The loop with every later match replacing the one found.
RECURSIVE ScanSnippetsLastWins(_, _, _)
ScanSnippetsLastWins(snips, name, contact) ==
    IF snips = <<>> THEN [name |-> name, contact |-> contact]
    ELSE LET text == Head(snips)
         IN  ScanSnippetsLastWins(Tail(snips),
                 IF SearchName(text) # NoneStr THEN SearchName(text) ELSE name,
                 IF SearchEmail(text) # NoneVal THEN SearchEmail(text) ELSE contact)

\* The for loop over the snippets of one page: a name or a contact once found
\* is kept.
RECURSIVE ScanSnippets(_, _, _)
ScanSnippets(snips, name, contact) ==
    IF snips = <<>> THEN [name |-> name, contact |-> contact]
    ELSE LET text == Head(snips)
         IN  ScanSnippets(Tail(snips),
                 IF name = NoneStr THEN SearchName(text) ELSE name,
                 IF contact = NoneVal THEN SearchEmail(text) ELSE contact)

\* The two queries, by what follows the business name and the location.
EnrichQueries == <<"owner", "contact email">>

EnrichRequests == [business_name : {"Acme"}, location : {"1 Main St"}]

IdleEnrichRequest == [business_name |-> NoneVal, location |-> NoneVal]

NoInfo == [enrichment_status |-> "none"]

\* find_owner_info, at the position pos, before it has done anything.
EnrichAt(pos) ==
    /\ e_pc = pos
    /\ e_calls = <<>>
    /\ found_name = NoneStr
    /\ found_contact = NoneVal
    /\ info = NoInfo
    /\ snippets_seen = {}

\* The loop left as soon as a name or a contact is found.
MoreQueriesUntilEither ==
    /\ Len(e_calls) < Len(EnrichQueries)
    /\ ~(found_name # NoneStr \/ found_contact # NoneVal)

\* The loop goes on: queries are left and a name and a contact are not both found.
MoreQueries ==
    /\ Len(e_calls) < Len(EnrichQueries)
    /\ ~(found_name # NoneStr /\ found_contact # NoneVal)

\* f'{business_name} {location} owner' and f'{business_name} {location} contact email'
EnrichQuery(r, k) == <<r.business_name, " ", r.location, " ", EnrichQueries[k]>>

\* The next query is sent and answered 200: its snippets are scanned.
EnrichSearch ==
    /\ e_pc = "loop"
    /\ MoreQueries
    /\ e_calls' = Append(e_calls, [q |-> EnrichQuery(e_req, Len(e_calls) + 1),
                                     answer |-> "200"])
    /\ \E snips \in SeqsUpTo(Snippets, MaxSnippets) :
          LET found == ScanSnippets(snips, found_name, found_contact)
          IN  /\ found_name' = found.name
              /\ found_contact' = found.contact
              /\ snippets_seen' = snippets_seen \cup {snips[i] : i \in 1..Len(snips)}
    /\ UNCHANGED <<e_req, e_pc, info>>
    /\ UNCHANGED <<searchVars, siteVars>>

\* The next query is sent and raises, or is answered with another status than
\* 200: the loop goes to the next query.
EnrichSearchFails ==
    /\ e_pc = "loop"
    /\ MoreQueries
    /\ \E answer \in {"raises", "not 200"} :
          e_calls' = Append(e_calls, [q |-> EnrichQuery(e_req, Len(e_calls) + 1),
                                      answer |-> answer])
    /\ UNCHANGED <<e_req, e_pc, found_name, found_contact, info, snippets_seen>>
    /\ UNCHANGED <<searchVars, siteVars>>

\* After the loop: the dict returned.
EnrichStatus(name) == IF name # NoneStr THEN "Found" ELSE "Not Found"

EnrichReturn ==
    /\ e_pc = "loop"
    /\ ~MoreQueries
    /\ info' = [ owner_name |-> found_name, owner_contact |-> found_contact,
                 enrichment_status |-> EnrichStatus(found_name) ]
    /\ e_pc' = "done"
    /\ UNCHANGED <<e_req, e_calls, found_name, found_contact, snippets_seen>>
    /\ UNCHANGED <<searchVars, siteVars>>

NextEnrich ==
    \/ EnrichSearch
    \/ EnrichSearchFails
    \/ EnrichReturn

(***************************************************************************)
(* One behaviour serves one request.                                       *)
(***************************************************************************)
InitSearch ==
    /\ req \in Requests
    /\ SearchAt("start")
    /\ s_req = IdleSiteRequest
    /\ SiteAt("idle")
    /\ e_req = IdleEnrichRequest
    /\ EnrichAt("idle")

InitSite ==
    /\ req = IdleRequest
    /\ SearchAt("idle")
    /\ s_req \in SiteRequests
    /\ SiteAt("start")
    /\ e_req = IdleEnrichRequest
    /\ EnrichAt("idle")

InitEnrich ==
    /\ req = IdleRequest
    /\ SearchAt("idle")
    /\ s_req = IdleSiteRequest
    /\ SiteAt("idle")
    /\ e_req \in EnrichRequests
    /\ EnrichAt("loop")

SpecSearch == InitSearch /\ [][NextSearch]_vars

\* The handler runs on: a step of the search that can be taken is taken.
SpecSearchFair == SpecSearch /\ WF_vars(NextSearch)

SpecSite == InitSite /\ [][NextSite]_vars

SpecEnrich == InitEnrich /\ [][NextEnrich]_vars

\* The two endpoints that answer with a status.
SpecEndpoints == (InitSearch \/ InitSite) /\ [][NextSearch \/ NextSite]_vars


(***************************************************************************)
(* Properties of the search.                                               *)
(***************************************************************************)
Values(f) == {f[x] : x \in DOMAIN f}

InFlight == Len(issued) - finished

\* C1: the aggregate holds each place_id once, and the record kept for it is
\* the first one any query returned, in query order, whatever came later.
C1_FirstSeenKept ==
    /\ \A i, j \in 1..Len(all_results) :
          all_results[i].place_id = all_results[j].place_id => i = j
    /\ pc # "merge" =>
          /\ Ids(all_results) = DOMAIN first_seen
          /\ \A i \in 1..Len(all_results) :
                all_results[i] = first_seen[all_results[i].place_id]
    /\ response.status = "success" => response.total_scanned = Len(all_results)

\* C1 witness: the search has answered, two places are in the aggregate and a
\* later record of one of them differed from the one kept.
C1_Witness ==
    /\ pc = "done"
    /\ Len(all_results) = 2
    /\ \E p \in DOMAIN first_seen : last_seen[p] # first_seen[p]

\* C3: a record has has_website exactly when its website is neither missing
\* nor the empty string.
C3_HasWebsiteIffNonEmpty ==
    \A r \in Values(all_results) \cup Values(results) \cup Values(query_results) :
        r.has_website = (r.website \notin {NoneVal, ""})

\* C3 witness: the aggregate returned holds a record with a website and one
\* whose website is the empty string.
C3_Witness ==
    /\ pc = "done"
    /\ \E r \in Values(all_results) : r.has_website
    /\ \E r \in Values(all_results) : r.website = "" /\ ~r.has_website

\* C4: without deep_scan at most one query is issued, and a search that
\* answers a result set has issued exactly the base query.
C4_OneQueryWithoutDeepScan ==
    ~req.deep_scan =>
        /\ Len(issued) <= 1
        /\ response.status = "success" =>
              issued = << <<req.niche, " in ">> \o req.location >>

\* C4 witness: a search without deep_scan has answered after its one query.
C4_Witness ==
    /\ ~req.deep_scan
    /\ response.status = "success"
    /\ Len(issued) = 1

Compass ==
    { "North", "North East", "East", "South East",
      "South", "South West", "West", "North West" }

\* C5: under deep_scan with a location that is no key of the region lookup, a
\* search that answers a result set has issued eleven queries: the base query
\* first, then one per compass direction, Central and Downtown.
C5_TenModifierQueries ==
    (req.deep_scan /\ Strip(Lower(req.location)) \notin DOMAIN US_STATES_CITIES) =>
        /\ Len(issued) <= 11
        /\ response.status = "success" =>
              /\ Len(issued) = 11
              /\ issued[1] = <<req.niche, " in ">> \o req.location
              /\ {issued[k] : k \in 2..11} =
                     { <<req.niche, " in ", d, " ">> \o req.location :
                           d \in Compass \cup {"Central", "Downtown"} }

\* C5 witness: a deep scan of a location the lookup does not know has answered.
C5_Witness ==
    /\ req.deep_scan
    /\ Strip(Lower(req.location)) \notin DOMAIN US_STATES_CITIES
    /\ response.status = "success"
    /\ Len(issued) = 11

\* C7 as stated: the queries go to a pool of workers, so while one query is in
\* flight and another is waiting, the waiting one can be dispatched.
C7_WorkerPool ==
    (InFlight >= 1 /\ Len(issued) < Len(queries)) => ENABLED InitialSearch

\* C7 amended: the queries run one at a time in list order; at most one query
\* is in flight, and none is dispatched while it is.
C7_OneAtATime ==
    /\ InFlight \in {0, 1}
    /\ Len(issued) <= Len(queries)
    /\ issued = SubSeq(queries, 1, Len(issued))
    /\ InFlight = 1 => ~ENABLED InitialSearch

\* C7 witness: the second query of a fan-out is in flight, alone.
C7_Witness ==
    /\ Len(queries) > 1
    /\ Len(issued) = 2
    /\ InFlight = 1

\* C8 as stated: nothing is in the aggregate before every query has finished.
C8_MergeAfterAll ==
    all_results # <<>> => finished = Len(queries)

\* C8 amended: the list a query returned is merged as soon as the query has
\* returned and before the next one starts: nothing is merged while a query is
\* in flight, and a query starts only with every earlier list merged.
C8_MergeAfterEach ==
    /\ merged <= finished
    /\ finished <= Len(issued)
    /\ Len(issued) <= merged + 1
    /\ (pc = "merge") = (finished = merged + 1)
    /\ pc \in {"page", "paginate"} =>
          /\ InFlight = 1
          /\ Ids(all_results) = DOMAIN first_seen

\* C8 witness: a query is in flight while the aggregate already holds the
\* records of an earlier one.
C8_Witness ==
    /\ pc = "page"
    /\ merged >= 1
    /\ all_results # <<>>
    /\ Len(issued) < Len(queries)

\* C9: a vendor failure inside a query never makes the search fail, and a
\* search that has answered has run every query and holds every place any
\* query returned.
C9_FailureSkipped ==
    /\ failed => response.status # "error"
    /\ pc = "done" /\ response.status = "success" =>
          /\ issued = queries
          /\ finished = Len(queries)
          /\ merged = Len(queries)
          /\ DOMAIN first_seen \subseteq Ids(all_results)

\* C9 witness: a fan-out has answered with records although a vendor call of
\* one of its queries raised.
C9_Witness ==
    /\ pc = "done"
    /\ failed
    /\ Len(queries) > 1
    /\ all_results # <<>>
    /\ response.status = "success"

(***************************************************************************)
(* Properties of the landing page generator, of the enrichment and of the  *)
(* endpoints.                                                              *)
(***************************************************************************)
\* C2: generate_landing_page never raises, and what it returns is not the
\* empty string.
C2_AlwaysNonEmptyHtml ==
    /\ glp # "raised"
    /\ glp = "returned" => html_content # <<>>

\* C6: when no snippet read holds a role keyword followed by a name, or an
\* email, find_owner_info returns "Not Found" with no name and no contact.
C6_NotFoundOnPlainSnippets ==
    (e_pc = "done" /\ snippets_seen \subseteq PlainSnippets) =>
        info = [ owner_name |-> NoneStr, owner_contact |-> NoneVal,
                 enrichment_status |-> "Not Found" ]

\* C6 witness: find_owner_info has returned after two queries whose snippets,
\* among them one with the role in small letters, held no match.
C6_Witness ==
    /\ e_pc = "done"
    /\ Len(e_calls) = 2
    /\ snippets_seen \subseteq PlainSnippets
    /\ <<"owner", ":", " ", "John", " ", "Smith">> \in snippets_seen
    /\ Cardinality(snippets_seen) >= 2

\* C10 as stated: once the key is supplied neither endpoint answers with an
\* error status.
C10_NeverErrorStatus ==
    /\ req.api_key # "" => response.status # "error"
    /\ s_req.ai_api_key # "" => s_response.status # "error"

\* C10 amended: a failure inside a query or a provider request is absorbed;
\* the search endpoint answers an error only when the client or the region
\* lookup could not be set up, before any query; generate-site answers 500
\* only when the fallback template raised on a missing niche or an empty or
\* missing business name, or when the file name, the directory or the write
\* failed after the page was returned.
C10_ErrorsOnlyOutsideUnits ==
    /\ pc = "done" => response.status \in {"success", "error"}
    /\ (response.status = "error" /\ req.api_key # "") =>
          /\ response.message \in {"googlemaps.Client", "services.cities"}
          /\ response.message = "services.cities" => req.deep_scan
          /\ issued = <<>>
          /\ ~failed
    /\ s_pc = "done" => s_response.status \in {"success", "error"}
    /\ (s_response.status = "error" /\ s_req.ai_api_key # "") =>
          /\ s_response.code = 500
          /\ \/ /\ s_response.message = "fallback template"
                /\ glp = "raised"
                /\ \/ s_req.niche = NoneVal
                   \/ s_req.business_name \in {<<>>, NoneStr}
             \/ /\ s_response.message \in {"safe_name", "os.makedirs", "open", "write"}
                /\ glp = "returned"
                /\ s_response.message = "safe_name" <=> s_req.business_name = NoneStr
    /\ s_response.status = "success" =>
          /\ glp = "returned"
          /\ generated = [name |-> generated.name, content |-> html_content, written |-> TRUE]

\* C10 witness: both Gemini requests failed, the fallback page was returned
\* and the write of its file failed: generate-site has answered 500.
C10_Witness ==
    /\ s_pc = "done"
    /\ Len(provider_calls) = 2
    /\ glp = "returned"
    /\ s_response.status = "error"
    /\ s_response.message = "write"

(***************************************************************************)
(* Properties of the search answer, of the pagination, of the enrichment   *)
(* loop and of the provider order.                                         *)
(***************************************************************************)
\* C11: a successful search answer lists only records without a website, in
\* the order of the aggregate; total_found counts the records listed,
\* total_scanned the records of the de-duplicated aggregate, and
\* total_found <= total_scanned.
C11_OnlyWithoutWebsite ==
    response.status = "success" =>
        /\ \A i \in 1..Len(response.results) : ~response.results[i].has_website
        /\ \A i \in 1..Len(response.results) : response.results[i].website \in {NoneVal, ""}
        /\ response.total_found = Len(response.results)
        /\ response.total_scanned = Len(all_results)
        /\ response.total_scanned = Cardinality(Ids(all_results))
        /\ response.total_found <= response.total_scanned
        /\ response.total_found =
               Cardinality({i \in 1..Len(all_results) : ~all_results[i].has_website})

\* C11 witness: a search answered after two places were scanned, one of them
\* with a website and left out of the results.
C11_Witness ==
    /\ response.status = "success"
    /\ response.total_scanned = 2
    /\ response.total_found = 1
    /\ \E i \in 1..Len(all_results) : all_results[i].has_website

\* C12: once a page is processed, the next page is requested exactly when the
\* response carries a token and the records collected for the query are
\* below the cap; otherwise, or when the request raises, the loop ends and the
\* records collected are what the query returns.
C12_NextPageIffTokenAndBelowCap ==
    [][ pc = "paginate" =>
          LET due == places_result.next_page_token /\ Len(results) < MaxPerQuery
          IN  /\ pc' \in {"page", "merge"}
              /\ pc' = "page" => due /\ results' = results
              /\ due => (pc' = "page" \/ failed')
              /\ ~due => (pc' = "merge" /\ failed' = failed)
              /\ pc' = "merge" => query_results' = results
      ]_vars

\* C12 witness: a second page is being processed, fetched with one record
\* collected, below the cap.
C12_Witness ==
    /\ pc = "page"
    /\ Len(results) = 1
    /\ Len(results) < MaxPerQuery
    /\ places_result.has_results

\* C13: a query never returns more records than the cap.
C13_CapEnforced ==
    Len(query_results) <= MaxPerQuery

\* C16: a query whose pages are being fetched returns.
C16_QueryReturns ==
    (pc \in {"page", "paginate"}) ~> (pc = "merge")

\* C14: find_owner_info sends at most two queries, the "owner" query then the
\* "contact email" query; the second is sent exactly when the first has not
\* yielded both a name and a contact, whatever the answer to the first was.
C14_TwoQueriesInOrder ==
    /\ [](/\ Len(e_calls) <= 2
          /\ Len(e_calls) >= 1 =>
                e_calls[1].q = <<e_req.business_name, " ", e_req.location, " ", "owner">>
          /\ Len(e_calls) = 2 =>
                e_calls[2].q = <<e_req.business_name, " ", e_req.location, " ", "contact email">>
          /\ e_pc = "done" => Len(e_calls) >= 1)
    /\ [][ LET both == found_name # NoneStr /\ found_contact # NoneVal
           IN  /\ e_calls' # e_calls =>
                     /\ Len(e_calls') = Len(e_calls) + 1
                     /\ SubSeq(e_calls', 1, Len(e_calls)) = e_calls
                     /\ ~both
               /\ (e_pc = "loop" /\ e_pc' = "done") => (both \/ Len(e_calls) = 2)
       ]_vars

\* C14 witness: the first query yielded a name and a contact and
\* find_owner_info has returned without a second query.
C14_Witness ==
    /\ e_pc = "done"
    /\ Len(e_calls) = 1
    /\ info.owner_name # NoneStr
    /\ info.owner_contact # NoneVal

\* C15: with provider "gemini" the models are asked in the order
\* gemini-1.5-flash, gemini-pro; a model is asked only while no answer was
\* returned, nothing is asked once one was, and the fallback is entered only
\* after both requests failed; any provider other than openai, gpt and gemini
\* goes to the fallback with no request made.
C15_GeminiOrderThenFallback ==
    /\ [](s_req.provider = "gemini" =>
             /\ \/ provider_calls = <<>>
                \/ provider_calls = <<"gemini-1.5-flash">>
                \/ provider_calls = <<"gemini-1.5-flash", "gemini-pro">>
             /\ s_pc = "fallback" => Len(provider_calls) = 2
             /\ (glp = "returned" /\ Len(provider_calls) < 2) =>
                    (html_content = <<>> \/ html_content[1] # "<!DOCTYPE html>"))
    /\ [](s_req.provider \notin {"openai", "gpt", "gemini"} =>
             /\ provider_calls = <<>>
             /\ glp = "returned" => html_content[1] = "<!DOCTYPE html>")
    /\ [][ provider_calls' # provider_calls =>
              /\ glp = "none"
              /\ s_pc = "provider"
              /\ Len(provider_calls') = Len(provider_calls) + 1
       ]_vars

\* C15 witness: both Gemini requests failed and the fallback page was returned.
C15_Witness ==
    /\ s_req.provider = "gemini"
    /\ provider_calls = <<"gemini-1.5-flash", "gemini-pro">>
    /\ glp = "returned"
    /\ html_content # <<>>
    /\ html_content[1] = "<!DOCTYPE html>"

\* C17: the dict returned has status "Found" exactly when it has an owner
\* name, whether or not it has a contact; and a name or a contact once found
\* is never replaced.
C17_FoundIffOwnerName ==
    /\ [](e_pc = "done" =>
             /\ info.enrichment_status \in {"Found", "Not Found"}
             /\ (info.enrichment_status = "Found") = (info.owner_name # NoneStr)
             /\ info.owner_name = found_name
             /\ info.owner_contact = found_contact)
    /\ [][ /\ found_name # NoneStr => found_name' = found_name
           /\ found_contact # NoneVal => found_contact' = found_contact
       ]_vars

\* C17 witness: after two queries a contact was found but no name: the status
\* returned is "Not Found".
C17_Witness ==
    /\ e_pc = "done"
    /\ Len(e_calls) = 2
    /\ info.owner_name = NoneStr
    /\ info.owner_contact # NoneVal
    /\ info.enrichment_status = "Not Found"

====
